---- MODULE Spec2Model ----
(***************************************************************************)
(* A model of pyopia.pipeline: the Pipeline step engine (construction and  *)
(* run()) and FilesToProcess (file-list persistence and chunking with      *)
(* background files).                                                      *)
(*                                                                         *)
(* Three specifications share the module:                                  *)
(*   Spec          Pipeline.__init__ followed by repeated Pipeline.run()   *)
(*   SpecChunking  FilesToProcess.prepare_chunking, called repeatedly      *)
(*   SpecFileList  FilesToProcess.to_filelist_file / from_filelist_file    *)
(* Each specification leaves the variables of the others at rest.          *)
(***************************************************************************)
EXTENDS Integers, Sequences, FiniteSets, TLC

(* ---------------------------------------------------------------------- *)
(* Bounds                                                                  *)
(* ---------------------------------------------------------------------- *)
\* longest settings['steps'] mapping explored
MaxSteps == 3
\* number of run() calls made on one Pipeline
MaxRuns == 2
\* longest file list given to prepare_chunking
MaxFiles == 10
\* largest num_chunks asked for
MaxChunks == 6
\* largest average_window asked for
MaxWindow == 3

(* ---------------------------------------------------------------------- *)
(* Values                                                                  *)
(* ---------------------------------------------------------------------- *)
\* Python's None; also stands for a key that is not in the Data dict yet
None == "None"
\* step names a configuration may use; 'classifier' is special-cased by run_step
StepNames == {"classifier", "load", "imageprep", "statextract"}
\* arguments given to run()
Filenames == {"D1.silc", "D2.silc"}
\* the object the classifier step's callable returns
ClassifierHandle == "Classify"

VARIABLES
    \* Pipeline
    stepnames,          \* self.stepnames: list(settings['steps'].keys())
    initial_steps,      \* self.initial_steps
    data,               \* self.data
    pc,                 \* where the Pipeline's caller is: "init", "idle", "run", "raised"
    idx,                \* position of the for loop over self.stepnames
    history,            \* per call (construction first, then each run()), the steps executed
    constructed,        \* how many step objects step_callobj has constructed so far
    \* FilesToProcess
    files,              \* self.files
    background_files,   \* self.background_files
    chunked_files,      \* self.chunked_files
    fpc,                \* where prepare_chunking is
    args,               \* arguments of the prepare_chunking call in progress
    chunk_i,            \* enumerate index of the loop of insert_bg_files_into_chunks
    inserted,           \* per chunk, how many files were inserted at its head
    shared,             \* per chunk, whether the chunk is the list object self.files itself
    bg_window,          \* the local average_window of insert_bg_files_into_chunks
    before,             \* files, chunked_files, background_files when the call began
    previous,           \* <<chunks>> of the call before, when it returned and had the same arguments
    \* file list on disk
    disk,               \* content of the file at path_to_filelist, None before it is written
    written,            \* the list that to_filelist_file wrote
    flpc                \* "new", then "written" after to_filelist_file, "loaded" after from_filelist_file

pipelineVars == <<stepnames, initial_steps, data, pc, idx, history, constructed>>
chunkVars ==
    <<background_files, chunked_files, fpc, args, chunk_i, inserted, shared, bg_window, before,
      previous>>
diskVars == <<disk, written, flpc>>
vars == <<pipelineVars, files, chunkVars, diskVars>>

(* ---------------------------------------------------------------------- *)
(* Sequence helpers                                                        *)
(* ---------------------------------------------------------------------- *)
Range(s) == {s[j] : j \in DOMAIN s}
Last(s) == s[Len(s)]
Min(a, b) == IF a < b THEN a ELSE b
Max(a, b) == IF a > b THEN a ELSE b

\* injective sequences over S of length at most n: the key lists of a dict
RECURSIVE KeyLists(_, _)
KeyLists(S, n) ==
    IF n = 0 THEN {<<>>}
    ELSE LET shorter == KeyLists(S, n - 1)
         IN  shorter \cup UNION {{Append(s, x) : x \in S \ Range(s)} : s \in shorter}

(***************************************************************************)
(*                               Pipeline                                  *)
(***************************************************************************)

\* Data(), as __init__ fills it before the first step: cl None, the flag False,
\* no filename yet. `produced` stands for the keys the steps themselves write
\* (imraw, timestamp, stats, ...): one slot per step, holding the file the
\* step last worked on.
NewData ==
    [filename |-> None,
     skip_next_steps |-> FALSE,
     cl |-> None,
     produced |-> [s \in StepNames |-> None]]

\* what a step derives its output from: the file being processed
Stamp(d) == IF d.filename = None THEN "init" ELSE d.filename

\* callobj(self.data) of a step: it returns the context with its own key
\* written and the flag as it chose to leave it (SilCamLoad, ImagePrep write
\* keys derived from data['filename'] and return data)
StepReturns(stepname, d) ==
    {[d EXCEPT !.skip_next_steps = b, !.produced[stepname] = Stamp(d)] : b \in BOOLEAN}

StepArgument_freshContext(stepname, d) ==
    IF stepname = "classifier" THEN <<>> ELSE <<NewData>>

StepArgument_classifierGetsContext(stepname, d) == <<d>>

\* run_step: the arguments of the call, `callobj()` for the step named
\* 'classifier' and `callobj(self.data)` for every other step
StepArgument(stepname, d) ==
    IF stepname = "classifier" THEN <<>> ELSE <<d>>

\* the record of one execution of a step: the context before it, the
\* arguments its callable got, the context the callable returned (none for
\* the classifier, whose callable returns the classifier object: `handle`),
\* the context self.data holds afterwards, and whether the callable raised
step_callobj_oneObjectPerStep(stepname) ==
    CHOOSE j \in DOMAIN stepnames : stepnames[j] = stepname

\* step_callobj: methodcaller(classname, **arguments) applied to the module
\* constructs an object of the step's class at every call; objects are
\* numbered in the order of their construction
step_callobj(stepname) == constructed + 1

Executed(stepname, d, given, returned, handle, left, raised) ==
    [name |-> stepname,
     instance |-> step_callobj(stepname),
     skip |-> left.skip_next_steps,
     before |-> d,
     given |-> given,
     returned |-> returned,
     handle |-> handle,
     left |-> left,
     raised |-> raised]

\* run_step, the callable returning normally: the classifier object is stored
\* under 'cl', the return value of any other step becomes self.data
run_step(stepname, d) ==
    LET given == StepArgument(stepname, d)
    IN  IF stepname = "classifier"
        THEN {Executed(stepname, d, given, <<>>, <<ClassifierHandle>>,
                       [d EXCEPT !.cl = ClassifierHandle], FALSE)}
        ELSE {Executed(stepname, d, given, <<r>>, <<>>, r, FALSE) :
                  r \in StepReturns(stepname, given[1])}

\* run_step, the callable raising: neither assignment of run_step happens; a
\* callable that was given the context may have written to it in place first
StepRaises(stepname, d) ==
    LET given == StepArgument(stepname, d)
        left == IF stepname = "classifier"
                THEN {d}
                ELSE {d} \cup StepReturns(stepname, given[1])
    IN  {Executed(stepname, d, given, <<>>, <<>>, l, TRUE) : l \in left}

\* __init__: `if not self.initial_steps.__contains__(stepname): continue`
InitSkips(stepname) == stepname \notin initial_steps

RunSkips_executesInitialSteps(stepname) == FALSE

\* run: `if self.initial_steps.__contains__(stepname): continue`
RunSkips(stepname) == stepname \in initial_steps

SkipCheck_neverExitsEarly(d) == FALSE

\* run: `if self.data['skip_next_steps']:`
SkipCheck(d) == d.skip_next_steps

\* run: `self.data['skip_next_steps'] = False`
ResetSkip(d) == [d EXCEPT !.skip_next_steps = FALSE]

LogStep(e) ==
    [history EXCEPT ![Len(history)] = Append(@, e)]

OnStepError_swallows ==
    /\ pc' = pc
    /\ idx' = idx + 1

\* __init__ and run call self.run_step(stepname) outside any try: the
\* exception leaves the loop and the method
OnStepError ==
    /\ pc' = "raised"
    /\ idx' = idx

RunCallData_recreates(d, filename) == [NewData EXCEPT !.filename = filename]

\* run: `self.data['filename'] = filename`
RunCallData(d, filename) == [d EXCEPT !.filename = filename]

\* Pipeline(settings, initial_steps) up to the loop over the step names
PipelineInit ==
    /\ stepnames \in KeyLists(StepNames, MaxSteps)
    /\ initial_steps \in SUBSET StepNames
    /\ data = NewData
    /\ pc = "init"
    /\ idx = 1
    /\ history = << <<>> >>
    /\ constructed = 0

\* one iteration of the loop of __init__
InitIteration ==
    /\ pc = "init"
    /\ idx <= Len(stepnames)
    /\ LET stepname == stepnames[idx]
       IN  IF InitSkips(stepname)
           THEN /\ idx' = idx + 1
                /\ UNCHANGED <<data, history, pc, constructed>>
           ELSE \/ \E e \in run_step(stepname, data) :
                      /\ data' = e.left
                      /\ history' = LogStep(e)
                      /\ constructed' = constructed + 1
                      /\ idx' = idx + 1
                      /\ pc' = pc
                \/ \E e \in StepRaises(stepname, data) :
                      /\ data' = e.left
                      /\ history' = LogStep(e)
                      /\ constructed' = constructed + 1
                      /\ OnStepError
    /\ UNCHANGED <<stepnames, initial_steps>>

\* __init__ returns
InitReturn ==
    /\ pc = "init"
    /\ idx > Len(stepnames)
    /\ pc' = "idle"
    /\ idx' = 0
    /\ UNCHANGED <<stepnames, initial_steps, data, history, constructed>>

\* run(filename), up to the loop
RunCall ==
    /\ pc = "idle"
    /\ Len(history) <= MaxRuns
    /\ \E filename \in Filenames :
          data' = RunCallData(data, filename)
    /\ pc' = "run"
    /\ idx' = 1
    /\ history' = Append(history, <<>>)
    /\ UNCHANGED <<stepnames, initial_steps, constructed>>

\* one iteration of the loop of run()
RunIteration ==
    /\ pc = "run"
    /\ idx <= Len(stepnames)
    /\ LET stepname == stepnames[idx]
       IN  IF RunSkips(stepname)
           THEN /\ idx' = idx + 1
                /\ UNCHANGED <<data, history, pc, constructed>>
           ELSE \/ \E e \in run_step(stepname, data) :
                      /\ history' = LogStep(e)
                      /\ constructed' = constructed + 1
                      /\ IF SkipCheck(e.left)
                         THEN /\ data' = ResetSkip(e.left)
                              /\ pc' = "idle"
                              /\ idx' = 0
                         ELSE /\ data' = e.left
                              /\ pc' = pc
                              /\ idx' = idx + 1
                \/ \E e \in StepRaises(stepname, data) :
                      /\ data' = e.left
                      /\ history' = LogStep(e)
                      /\ constructed' = constructed + 1
                      /\ OnStepError
    /\ UNCHANGED <<stepnames, initial_steps>>

\* the loop of run() is exhausted: `return`
RunReturn ==
    /\ pc = "run"
    /\ idx > Len(stepnames)
    /\ pc' = "idle"
    /\ idx' = 0
    /\ UNCHANGED <<stepnames, initial_steps, data, history, constructed>>

(***************************************************************************)
(*                     FilesToProcess: chunking                            *)
(***************************************************************************)

\* values of bgshift_function: 'pass' keeps one background for all chunks,
\* anything else is a rolling background
BgshiftFunctions == {"pass", "accurate"}

\* s[a:b] for 0 <= a, 0 <= b
PySlice(s, a, b) == SubSeq(s, a + 1, Min(b, Len(s)))

PyTail_oneMore(s, k) == SubSeq(s, Max(Len(s) - (k + 1), 0) + 1, Len(s))

\* s[-k:] for k >= 0; -0 is 0, so s[-0:] is the whole list
PyTail(s, k) == IF k = 0 THEN s ELSE SubSeq(s, Max(Len(s) - k, 0) + 1, Len(s))

\* list.insert(0, x)
InsertAtHead(s, x) == <<x>> \o s

\* reversed(s)
Reversed(s) == [j \in 1..Len(s) |-> s[Len(s) + 1 - j]]

\* [chunk.insert(0, bg_file) for bg_file in bg_files]: the chunk afterwards
RECURSIVE InsertEach(_, _)
InsertEach(chunk, bg_files) ==
    IF bg_files = <<>> THEN chunk
    ELSE InsertEach(InsertAtHead(chunk, Head(bg_files)), Tail(bg_files))

\* int(np.ceil(n / k)) for k >= 1
CeilDiv(n, k) == (n + k - 1) \div k

\* range(0, n, step) for step >= 1
PyRange(n, step) == [j \in 1..CeilDiv(n, step) |-> (j - 1) * step]

TooManyChunks_comparesWithFileCount(num_chunks, n) == num_chunks > n

\* prepare_chunking: `if num_chunks > len(self.files) // 2:`
TooManyChunks(num_chunks, n) == num_chunks > n \div 2

\* chunk_files: `if num_chunks < 1:`
TooFewChunks(num_chunks) == num_chunks < 1

ChunkAt_dropsLastFile(f, i, chunk_length) == PySlice(f, i, i + chunk_length - 1)

\* chunk_files: self.files[i:i + chunk_length]
ChunkAt(f, i, chunk_length) == PySlice(f, i, i + chunk_length)

\* chunk_files: the list comprehension over range(0, len(self.files), chunk_length)
ChunkList(f, num_chunks) ==
    LET chunk_length == CeilDiv(Len(f), num_chunks)
        starts == PyRange(Len(f), chunk_length)
    IN  [j \in DOMAIN starts |-> ChunkAt(f, starts[j], chunk_length)]

SliceIsSameList_whenWhole(f, i, chunk_length) == i = 0 /\ chunk_length >= Len(f)

\* chunk_files: self.files[i:i + chunk_length] is a new list object, also
\* when the slice covers all of self.files
SliceIsSameList(f, i, chunk_length) == FALSE

\* chunk_files: which of the chunks are the list object self.files
ChunkSharing(f, num_chunks) ==
    LET chunk_length == CeilDiv(Len(f), num_chunks)
        starts == PyRange(Len(f), chunk_length)
    IN  [j \in DOMAIN starts |-> SliceIsSameList(f, starts[j], chunk_length)]

ShiftsBackground_ignoresMode(i, bgshift_function) == i > 0

\* insert_bg_files_into_chunks: `if i > 0 and bgshift_function != 'pass':`
ShiftsBackground(i, bgshift_function) == i > 0 /\ bgshift_function # "pass"

InitialBackgroundFiles_oneMore(old, f, average_window) ==
    PySlice(f, 0, average_window + 1)

InitialBackgroundFiles_keepsOld(old, f, average_window) ==
    old \o PySlice(f, 0, average_window)

\* build_initial_background_files: `self.background_files = []`, then every
\* file of self.files[0:average_window] appended
InitialBackgroundFiles(old, f, average_window) ==
    <<>> \o PySlice(f, 0, average_window)

\* the FilesToProcess object before the first prepare_chunking call
FilesInit ==
    /\ files \in {[j \in 1..n |-> j] : n \in 0..MaxFiles}
    /\ background_files = <<>>
    /\ chunked_files = <<>>
    /\ fpc = "idle"
    /\ args = None
    /\ chunk_i = 0
    /\ inserted = <<>>
    /\ shared = <<>>
    /\ bg_window = None
    /\ before = None
    /\ previous = <<>>

\* prepare_chunking(num_chunks, average_window, bgshift_function): the call
\* and its check of num_chunks against half the file count
PrepareChunking ==
    /\ fpc \in {"idle", "returned", "raised"}
    /\ \E num_chunks \in 0..MaxChunks, average_window \in 0..MaxWindow,
          bgshift_function \in BgshiftFunctions :
          /\ args' = [num_chunks |-> num_chunks,
                      average_window |-> average_window,
                      bgshift_function |-> bgshift_function]
          /\ fpc' = IF TooManyChunks(num_chunks, Len(files))
                    THEN "raised"
                    ELSE "chunk_files"
    /\ before' = [files |-> files,
                  chunked_files |-> chunked_files,
                  background_files |-> background_files]
    /\ previous' = IF fpc = "returned" /\ args' = args THEN <<chunked_files>> ELSE <<>>
    /\ UNCHANGED <<files, background_files, chunked_files, chunk_i, inserted, shared, bg_window>>

\* chunk_files(num_chunks)
ChunkFiles ==
    /\ fpc = "chunk_files"
    /\ IF TooFewChunks(args.num_chunks)
       THEN /\ fpc' = "raised"
            /\ UNCHANGED <<chunked_files, inserted, shared>>
       ELSE /\ chunked_files' = ChunkList(files, args.num_chunks)
            /\ inserted' = [j \in DOMAIN chunked_files' |-> 0]
            /\ shared' = ChunkSharing(files, args.num_chunks)
            /\ fpc' = "build_initial_background_files"
    /\ UNCHANGED <<files, background_files, args, chunk_i, bg_window, before, previous>>

\* build_initial_background_files(average_window)
BuildInitialBackgroundFiles ==
    /\ fpc = "build_initial_background_files"
    /\ background_files' = InitialBackgroundFiles(background_files, files, args.average_window)
    /\ fpc' = "insert_bg_files_into_chunks"
    /\ UNCHANGED <<files, chunked_files, args, chunk_i, inserted, shared, bg_window, before, previous>>

\* insert_bg_files_into_chunks: `average_window = len(self.background_files)`
InsertBgBegin ==
    /\ fpc = "insert_bg_files_into_chunks"
    /\ bg_window' = Len(background_files)
    /\ chunk_i' = 0
    /\ fpc' = "insert_loop"
    /\ UNCHANGED <<files, background_files, chunked_files, args, inserted, shared, before, previous>>

\* insert_bg_files_into_chunks: one iteration of the loop over enumerate(self.chunked_files)
InsertBgIteration ==
    /\ fpc = "insert_loop"
    /\ chunk_i < Len(chunked_files)
    /\ LET bg == IF ShiftsBackground(chunk_i, args.bgshift_function)
                 THEN background_files \o PyTail(chunked_files[chunk_i], bg_window)
                 ELSE background_files
           bg_files == Reversed(PyTail(bg, bg_window))
       IN  /\ background_files' = bg
           /\ chunked_files' = [chunked_files EXCEPT ![chunk_i + 1] = InsertEach(@, bg_files)]
           /\ inserted' = [inserted EXCEPT ![chunk_i + 1] = @ + Len(bg_files)]
           \* chunk.insert changes the list object: self.files too, were the chunk that object
           /\ files' = IF shared[chunk_i + 1] THEN chunked_files'[chunk_i + 1] ELSE files
    /\ chunk_i' = chunk_i + 1
    /\ UNCHANGED <<fpc, args, shared, bg_window, before, previous>>

\* the loop is exhausted: insert_bg_files_into_chunks and prepare_chunking return
PrepareChunkingReturn ==
    /\ fpc = "insert_loop"
    /\ chunk_i = Len(chunked_files)
    /\ fpc' = "returned"
    /\ chunk_i' = 0
    /\ bg_window' = None
    /\ before' = None
    /\ UNCHANGED <<files, background_files, chunked_files, args, inserted, shared, previous>>

(***************************************************************************)
(*                     FilesToProcess: the file list on disk               *)
(***************************************************************************)
\* longest path in a file list built from a glob pattern
MaxPathLen == 2
\* longest file list written to disk
MaxListLen == 2
\* largest list file, in characters
MaxDisk == 8

\* the line terminator to_filelist_file writes and readlines() splits at
NL == "\n"
\* characters of the paths glob returns
PathChars == {"a", "b"}

\* paths: non-empty sequences of characters
Paths == UNION {[1..n -> PathChars] : n \in 1..MaxPathLen}

\* to_filelist_file: `[fh.writelines(L + '\n') for L in self.files]`: the text written
RECURSIVE WriteLines(_)
WriteLines(lines) ==
    IF lines = <<>> THEN <<>>
    ELSE Head(lines) \o <<NL>> \o WriteLines(Tail(lines))

\* fh.readlines(): the lines of the text, each with the newline that ends it
RECURSIVE ReadLines(_)
ReadLines(text) ==
    IF text = <<>> THEN <<>>
    ELSE IF \E k \in DOMAIN text : text[k] = NL
         THEN LET k == CHOOSE k \in DOMAIN text :
                           /\ text[k] = NL
                           /\ \A m \in 1..(k - 1) : text[m] # NL
              IN  <<SubSeq(text, 1, k)>> \o ReadLines(SubSeq(text, k + 1, Len(text)))
         ELSE <<text>>

\* FilesToProcess(glob_pattern): self.files is a list of paths
FileListInit ==
    /\ files \in UNION {[1..n -> Paths] : n \in 0..MaxListLen}
    /\ disk = None
    /\ written = None
    /\ flpc = "new"

\* to_filelist_file(path_to_filelist)
ToFilelistFile ==
    /\ flpc \in {"new", "written", "loaded"}
    /\ Len(WriteLines(files)) <= MaxDisk
    /\ disk' = WriteLines(files)
    /\ written' = files
    /\ flpc' = "written"
    /\ UNCHANGED files

\* from_filelist_file(path_to_filelist), the file being there
FromFilelistFile ==
    /\ flpc \in {"written", "loaded"}
    /\ files' = ReadLines(disk)
    /\ flpc' = "loaded"
    /\ UNCHANGED <<disk, written>>

(***************************************************************************)
(*                     Variables at rest                                   *)
(***************************************************************************)
PipelineAtRest ==
    /\ stepnames = <<>>
    /\ initial_steps = {}
    /\ data = NewData
    /\ pc = "unused"
    /\ idx = 0
    /\ history = <<>>
    /\ constructed = 0

ChunkingAtRest ==
    /\ background_files = <<>>
    /\ chunked_files = <<>>
    /\ fpc = "unused"
    /\ args = None
    /\ chunk_i = 0
    /\ inserted = <<>>
    /\ shared = <<>>
    /\ bg_window = None
    /\ before = None
    /\ previous = <<>>

DiskAtRest ==
    /\ disk = None
    /\ written = None
    /\ flpc = "unused"

(***************************************************************************)
(*                     Specification of the Pipeline                       *)
(***************************************************************************)
Init ==
    /\ PipelineInit
    /\ files = <<>>
    /\ ChunkingAtRest
    /\ DiskAtRest

Next ==
    \/ InitIteration /\ UNCHANGED <<files, chunkVars, diskVars>>
    \/ InitReturn /\ UNCHANGED <<files, chunkVars, diskVars>>
    \/ RunCall /\ UNCHANGED <<files, chunkVars, diskVars>>
    \/ RunIteration /\ UNCHANGED <<files, chunkVars, diskVars>>
    \/ RunReturn /\ UNCHANGED <<files, chunkVars, diskVars>>

Spec == Init /\ [][Next]_vars

(***************************************************************************)
(*                     Specification of prepare_chunking                   *)
(***************************************************************************)
InitChunking ==
    /\ PipelineAtRest
    /\ FilesInit
    /\ DiskAtRest

NextChunking ==
    \/ PrepareChunking /\ UNCHANGED <<pipelineVars, diskVars>>
    \/ ChunkFiles /\ UNCHANGED <<pipelineVars, diskVars>>
    \/ BuildInitialBackgroundFiles /\ UNCHANGED <<pipelineVars, diskVars>>
    \/ InsertBgBegin /\ UNCHANGED <<pipelineVars, diskVars>>
    \/ InsertBgIteration /\ UNCHANGED <<pipelineVars, diskVars>>
    \/ PrepareChunkingReturn /\ UNCHANGED <<pipelineVars, diskVars>>

SpecChunking == InitChunking /\ [][NextChunking]_vars

(***************************************************************************)
(*                     Specification of the file list on disk              *)
(***************************************************************************)
InitFileList ==
    /\ PipelineAtRest
    /\ ChunkingAtRest
    /\ FileListInit

NextFileList ==
    \/ ToFilelistFile /\ UNCHANGED <<pipelineVars, chunkVars>>
    \/ FromFilelistFile /\ UNCHANGED <<pipelineVars, chunkVars>>

SpecFileList == InitFileList /\ [][NextFileList]_vars

(***************************************************************************)
(*                     Properties of the Pipeline                          *)
(***************************************************************************)
\* how often a step appears among the steps executed by one call
Count(s, trace) == Cardinality({j \in DOMAIN trace : trace[j].name = s})
StepNamesOf(trace) == [j \in DOMAIN trace |-> trace[j].name]
IsPrefix(a, b) == Len(a) <= Len(b) /\ \A j \in DOMAIN a : a[j] = b[j]
\* __init__ has returned
Constructed == pc = "idle" \/ Len(history) > 1
\* the configured steps not named in initial_steps, in declaration order
PerFileSteps == SelectSeq(stepnames, LAMBDA s : s \notin initial_steps)
\* the k-th call of history has returned normally
Returned(k) == k < Len(history) \/ pc = "idle"

\* C1: every configured step named in initial_steps is executed exactly once,
\* during construction, and by no run() call however many follow; a configured
\* step not named in initial_steps is never executed during construction.
C1_InitialStepsRunOnceAtConstruction ==
    \A j \in DOMAIN stepnames :
        LET s == stepnames[j]
        IN  IF s \in initial_steps
            THEN /\ Count(s, history[1]) <= 1
                 /\ Constructed => Count(s, history[1]) = 1
                 /\ \A k \in 2..Len(history) : Count(s, history[k]) = 0
            ELSE Count(s, history[1]) = 0

\* two run() calls have returned on a pipeline with an initial and a per-file
\* step, and both calls executed steps
C1_Witness ==
    /\ pc = "idle"
    /\ Len(history) = 3
    /\ \E s \in Range(stepnames) : s \in initial_steps
    /\ history[1] # <<>>
    /\ history[2] # <<>>
    /\ history[3] # <<>>

\* C2: in a run() call, a step that leaves skip_next_steps true is the last
\* step executed; the flag is false again when run() returns; and every run()
\* call, the one after an early exit included, starts at the first per-file
\* step and goes through all of them unless a step leaves the flag true.
C2_EarlyExitIsPerInvocation ==
    \A k \in 2..Len(history) :
        LET trace == history[k]
        IN  /\ \A j \in 1..(Len(trace) - 1) : ~trace[j].skip
            /\ IsPrefix(StepNamesOf(trace), PerFileSteps)
            /\ Returned(k) =>
                  \/ StepNamesOf(trace) = PerFileSteps
                  \/ trace # <<>> /\ Last(trace).skip
            /\ (k = Len(history) /\ pc = "idle" /\ trace # <<>> /\ Last(trace).skip) =>
                  ~data.skip_next_steps

\* a run() call that exited early before its last step, followed by a run()
\* call that went through all per-file steps
C2_Witness ==
    /\ pc = "idle"
    /\ Len(history) = 3
    /\ Len(PerFileSteps) >= 2
    /\ history[2] # <<>>
    /\ Len(history[2]) < Len(PerFileSteps)
    /\ Last(history[2]).skip
    /\ StepNamesOf(history[3]) = PerFileSteps

\* C3: skip_next_steps is false at the start of every run() call, the first
\* one after construction included: in a run() call that has executed no step
\* yet, the flag is false.
C3_FlagFalseAtRunStart ==
    (pc = "run" /\ Last(history) = <<>>) => ~data.skip_next_steps

(***************************************************************************)
(*                     Properties of prepare_chunking                      *)
(***************************************************************************)
RECURSIVE Flatten(_)
Flatten(ss) == IF ss = <<>> THEN <<>> ELSE Head(ss) \o Flatten(Tail(ss))
\* the files inserted at the head of chunk j
BgPrefix(j) == SubSeq(chunked_files[j], 1, inserted[j])
\* chunk j without the files inserted at its head
OwnFiles(j) == SubSeq(chunked_files[j], inserted[j] + 1, Len(chunked_files[j]))
\* the last k elements of s, all of s when it has fewer
LastUpTo(s, k) == SubSeq(s, Max(Len(s) - k, 0) + 1, Len(s))
\* the first k elements of s, all of s when it has fewer
FirstUpTo(s, k) == SubSeq(s, 1, Min(k, Len(s)))
Rolling == args.bgshift_function # "pass"
\* the arguments the claims call invalid
BadChunkCount == args.num_chunks > Len(files) \div 2 \/ args.num_chunks < 1

\* C4: after prepare_chunking, the chunks without their inserted background
\* prefixes, concatenated in chunk order, are the original file list.
C4_OwnPortionsPartitionFiles ==
    fpc = "returned" =>
        Flatten([j \in DOMAIN chunked_files |-> OwnFiles(j)]) = files

\* three or more chunks, the last one shorter, with a rolling background
C4_Witness ==
    /\ fpc = "returned"
    /\ Rolling
    /\ args.average_window >= 2
    /\ Len(chunked_files) >= 3
    /\ Len(OwnFiles(Len(chunked_files))) < Len(OwnFiles(1))
    /\ inserted[2] > 0

\* C5: under a rolling background, the background prefix of every chunk after
\* the first is the last average_window own files of the chunk before it (all
\* of them when it has fewer), never files that chunk received as background.
C5_RollingPrefixFromPreviousOwnFiles ==
    (fpc = "returned" /\ Rolling) =>
        \A j \in 2..Len(chunked_files) :
            BgPrefix(j) = LastUpTo(OwnFiles(j - 1), args.average_window)

\* C6: every chunk's background prefix has at most average_window files; with
\* average_window = 0 every chunk is its own slice of the file list.
C6_PrefixAtMostWindow ==
    fpc = "returned" =>
        \A j \in DOMAIN chunked_files :
            /\ Len(BgPrefix(j)) <= args.average_window
            /\ args.average_window = 0 =>
                  LET chunk_length == CeilDiv(Len(files), args.num_chunks)
                  IN  chunked_files[j] =
                          PySlice(files, (j - 1) * chunk_length, j * chunk_length)

\* C8: a prepare_chunking call with num_chunks above half the file count, or
\* below 1, gets no further than the check that raises, and files,
\* chunked_files and background_files are what they were before the call; so
\* no call on fewer than 2 files gets past the checks.
C8_BadChunkCountRaisesAndChangesNothing ==
    /\ (fpc \notin {"idle", "returned"} /\ BadChunkCount) =>
          /\ fpc \in {"chunk_files", "raised"}
          /\ fpc = "chunk_files" => args.num_chunks < 1
          /\ files = before.files
          /\ chunked_files = before.chunked_files
          /\ background_files = before.background_files
    /\ fpc = "returned" => ~BadChunkCount
    /\ Len(files) < 2 => fpc \in {"idle", "chunk_files", "raised"}

\* a call with too many chunks raised on an object that holds the chunks and
\* background files of an earlier call
C8_Witness ==
    /\ fpc = "raised"
    /\ args.num_chunks > Len(files) \div 2
    /\ before.chunked_files # <<>>
    /\ before.background_files # <<>>
    /\ chunked_files = before.chunked_files

\* C9: under 'pass', every chunk has the same background prefix, the first
\* average_window files of the file list in their order, and the insertion
\* leaves background_files as build_initial_background_files made it.
C9_PassModeSameInitialWindow ==
    /\ (fpc \in {"insert_loop", "returned"} /\ ~Rolling) =>
          background_files = FirstUpTo(files, args.average_window)
    /\ (fpc = "returned" /\ ~Rolling) =>
          \A j \in DOMAIN chunked_files :
              BgPrefix(j) = FirstUpTo(files, args.average_window)

\* three chunks under 'pass' with a window of two or more files
C9_Witness ==
    /\ fpc = "returned"
    /\ ~Rolling
    /\ args.average_window >= 2
    /\ Len(chunked_files) >= 3
    /\ BgPrefix(3) = <<1, 2>>

\* C10: prepare_chunking with 1 <= num_chunks <= floor(n/2) produces exactly
\* num_chunks chunks.
C10_ExactlyNumChunks ==
    fpc = "returned" => Len(chunked_files) = args.num_chunks

\* C11: whenever prepare_chunking succeeds, every chunk holds at least 2 files
\* of its own (its files without the inserted background prefix).
C11_NoDegenerateChunk ==
    fpc = "returned" =>
        \A j \in DOMAIN chunked_files : Len(OwnFiles(j)) >= 2

\* prepare_chunking(2, 2, rolling) has returned on the file list f1..f10
TenFilesTwoChunksRolling ==
    /\ fpc = "returned"
    /\ files = <<1, 2, 3, 4, 5, 6, 7, 8, 9, 10>>
    /\ args = [num_chunks |-> 2, average_window |-> 2, bgshift_function |-> "accurate"]

\* C12 as claimed: for f1..f10, num_chunks = 2, average_window = 2, rolling,
\* there are two chunks of chunk_length 5, chunk 0 = f1..f5 with no background
\* files added and chunk 1 = f4, f5, f6..f10.
C12_ScenarioAsClaimed ==
    TenFilesTwoChunksRolling =>
        chunked_files = << <<1, 2, 3, 4, 5>>, <<4, 5, 6, 7, 8, 9, 10>> >>

\* C12 amended: in that scenario there are two chunks of chunk_length 5;
\* chunk 0 is f1..f5 behind the seeded window f1, f2, and chunk 1 is f6..f10
\* behind f4, f5.
C12_ScenarioChunkZeroHasSeededWindow ==
    TenFilesTwoChunksRolling =>
        /\ chunked_files = << <<1, 2, 1, 2, 3, 4, 5>>, <<4, 5, 6, 7, 8, 9, 10>> >>
        /\ Len(OwnFiles(1)) = 5
        /\ BgPrefix(1) = <<1, 2>>
        /\ BgPrefix(2) = <<4, 5>>

\* the scenario has been run
C12_Witness ==
    /\ TenFilesTwoChunksRolling
    /\ Len(chunked_files) = 2

\* the elements of s are in the order they have in the file list (files is
\* 1, 2, ..., n: a later file is a larger number)
Chronological(s) == \A a, b \in DOMAIN s : a < b => s[a] < s[b]

\* C14: after prepare_chunking every chunk is its background window followed
\* by its own files, the window in the same relative order as in the file
\* list, and chunk 0 is the first average_window files of the file list
\* followed by the first chunk_length files.
C14_WindowChronologicalAtHead ==
    fpc = "returned" =>
        /\ \A j \in DOMAIN chunked_files :
               /\ Chronological(BgPrefix(j))
               /\ Chronological(OwnFiles(j))
        /\ chunked_files[1] =
               FirstUpTo(files, args.average_window)
                   \o FirstUpTo(files, CeilDiv(Len(files), args.num_chunks))

\* C13: no step of prepare_chunking, of a call that succeeds or of one that
\* raises, changes the file list, although the chunks are changed in place.
C13_FilesNeverChange ==
    [][files' = files]_vars

\* a call has inserted background files in place into a single chunk that
\* holds the whole file list
C13_Witness ==
    /\ fpc = "returned"
    /\ Len(chunked_files) = 1
    /\ inserted[1] >= 2
    /\ OwnFiles(1) = files
    /\ Len(files) >= 4

\* build_initial_background_files of the call in progress has run
WindowBuilt == fpc \in {"insert_bg_files_into_chunks", "insert_loop", "returned"}

\* C19 as claimed: once prepare_chunking has been called, background_files
\* holds at most average_window files, at every step of the call and after it.
C19_BackgroundFilesAtMostWindow ==
    fpc # "idle" => Len(background_files) <= args.average_window

\* C19 amended: from build_initial_background_files on, background_files
\* holds at most average_window files when the background mode is 'pass' or
\* there is one chunk; with a rolling background and average_window >= 1 it
\* holds at most average_window files per chunk.
C19_BackgroundFilesBound ==
    WindowBuilt =>
        /\ (~Rolling \/ Len(chunked_files) = 1) =>
               Len(background_files) <= args.average_window
        /\ (Rolling /\ args.average_window >= 1) =>
               Len(background_files) <= args.average_window * Len(chunked_files)

\* a rolling background over three or more chunks has filled background_files
\* with one window per chunk
C19_Witness ==
    /\ fpc = "returned"
    /\ Rolling
    /\ args.average_window >= 2
    /\ Len(chunked_files) >= 3
    /\ Len(background_files) = args.average_window * Len(chunked_files)

\* insert_bg_files_into_chunks on an object whose background_files is bg: the
\* chunks after the iterations i, i + 1, ... of its loop, with the window w
RECURSIVE InsertFrom(_, _, _, _, _)
InsertFrom(i, chunks, bg, w, bgshift_function) ==
    IF i >= Len(chunks) THEN chunks
    ELSE LET shifted == IF ShiftsBackground(i, bgshift_function)
                        THEN bg \o PyTail(chunks[i], w)
                        ELSE bg
         IN  InsertFrom(i + 1,
                        [chunks EXCEPT ![i + 1] = InsertEach(@, Reversed(PyTail(shifted, w)))],
                        shifted, w, bgshift_function)

\* the chunks prepare_chunking makes on a new FilesToProcess object holding f
FreshChunks(f, a) ==
    LET bg == InitialBackgroundFiles(<<>>, f, a.average_window)
    IN  InsertFrom(0, ChunkList(f, a.num_chunks), bg, Len(bg), a.bgshift_function)

\* C20: the chunks of a prepare_chunking call are those the same call makes
\* on a new object with the same files, whatever earlier calls left in
\* chunked_files and background_files; a call with the arguments of the call
\* just before it yields the same chunks again.
C20_PrepareChunkingRepeatable ==
    fpc = "returned" =>
        /\ chunked_files = FreshChunks(files, args)
        /\ previous # <<>> => chunked_files = previous[1]

\* prepare_chunking has returned a second time in a row with the same
\* arguments, a rolling background inserted into three or more chunks
C20_Witness ==
    /\ fpc = "returned"
    /\ previous # <<>>
    /\ Rolling
    /\ args.average_window >= 2
    /\ Len(chunked_files) >= 3
    /\ \A j \in DOMAIN chunked_files : inserted[j] = args.average_window

(***************************************************************************)
(*                  Properties of step execution in Pipeline               *)
(***************************************************************************)
\* every execution so far, construction first, in the order they happened
AllExecuted == Flatten(history)
\* the latest execution of the step named s: <<>> when there is none
LastNamed(s) ==
    LET js == {j \in DOMAIN AllExecuted : AllExecuted[j].name = s}
    IN  IF js = {} THEN <<>>
        ELSE <<AllExecuted[CHOOSE j \in js : \A i \in js : i <= j]>>
\* a context without the two keys run() itself writes
Mask(d) == [d EXCEPT !.filename = None, !.skip_next_steps = FALSE]

C16_StepFailurePropagates ==
    /\ \A k \in DOMAIN history : \A j \in DOMAIN history[k] :
          history[k][j].raised =>
              /\ k = Len(history)
              /\ j = Len(history[k])
              /\ Count(history[k][j].name, history[k]) = 1
              /\ pc = "raised"
              /\ data = history[k][j].left
    /\ pc = "raised" => (Last(history) # <<>> /\ Last(Last(history)).raised)

\* a per-file step raised after it had set the skip flag in the context, in
\* a run() call that had executed another step before
C16_Witness ==
    /\ pc = "raised"
    /\ Len(history) >= 2
    /\ Len(Last(history)) >= 2
    /\ Last(Last(history)).raised
    /\ ~Last(Last(history)).before.skip_next_steps
    /\ data.skip_next_steps

\* C17: apart from filename and skip_next_steps the context is what the
\* latest executed step left, whatever calls were made since; so the key of a
\* step holds what that step's latest execution wrote, also after run() calls
\* that did not reach the step.
C17_ContextPersistsAcrossCalls ==
    /\ Mask(data) =
           IF AllExecuted = <<>> THEN Mask(NewData) ELSE Mask(Last(AllExecuted).left)
    /\ \A s \in StepNames :
           /\ data.produced[s] =
                  IF LastNamed(s) = <<>> THEN None ELSE LastNamed(s)[1].left.produced[s]
           /\ s = "classifier" =>
                  data.cl = IF LastNamed(s) = <<>> THEN None ELSE LastNamed(s)[1].left.cl

\* the second run() call exited early before a step that the first run() call
\* had executed on another file: the step's key still holds the first file
C17_Witness ==
    /\ pc = "idle"
    /\ Len(history) = 3
    /\ history[3] # <<>>
    /\ Last(history[3]).skip
    /\ \E s \in Range(PerFileSteps) :
          /\ Count(s, history[2]) = 1
          /\ Count(s, history[3]) = 0
          /\ data.produced[s] \in Filenames
          /\ data.produced[s] # data.filename

C21_FreshStepObjectPerExecution ==
    /\ \A a, b \in DOMAIN AllExecuted :
           a # b => AllExecuted[a].instance # AllExecuted[b].instance
    /\ constructed = Len(AllExecuted)

\* after a step executed at construction, two run() calls have each executed
\* the same per-file step
C21_Witness ==
    /\ Len(history) = 3
    /\ history[1] # <<>>
    /\ \E a \in DOMAIN history[2], b \in DOMAIN history[3] :
          /\ history[2][a].name = history[3][b].name
          /\ history[2][a].instance < history[3][b].instance

(***************************************************************************)
(*                     Properties of the file list on disk                 *)
(***************************************************************************)
\* C7: a file list written with to_filelist_file and loaded back with
\* from_filelist_file is the list that was written.
C7_RoundTrip ==
    flpc = "loaded" => files = written

====
